---- MODULE Spec2Model ----
(***************************************************************************)
(* Model of the credential-bridging service in src/src/main.rs: the three  *)
(* axum handlers login, login_from_telegram and get_token, the process-wide *)
(* DashMap TEMP_MAP, the OnceCell DB_CONN and the redis store behind it.    *)
(*                                                                          *)
(* Text is modelled by TLA+ strings; a character is a string of length 1.   *)
(* Option<T> is modelled by a sequence: None is <<>>, Some(v) is <<v>>.     *)
(* An i64 is modelled by its canonical decimal numeral ("0", "3600",        *)
(* "-17"), which keeps the full 64-bit range without 64-bit arithmetic.     *)
(***************************************************************************)
EXTENDS Integers, Sequences, FiniteSets, TLC

(***************************************************************************)
(* Bounds of the model.                                                     *)
(***************************************************************************)
MaxLogin == 2        \* GET /login requests served in one behaviour
MaxLink == 2         \* GET /login_from_telegram requests
MaxGet == 1          \* GET /get_token requests
LookupLogin == 1     \* GET /login requests in the behaviours with lookups
LifetimeLink == 1    \* link requests in the behaviours of all three handlers
RetryLink == 2       \* link requests that follow a cancelled one
NumHandles == 2      \* distinct values the handle generator can produce
NumWorkers == 2      \* worker threads of the tokio runtime
NumShards == 2       \* shards of the DashMap

\* The requests, numbered per handler in the order in which they arrive.
Logins == 1..MaxLogin
NumLinks == IF MaxLink > 1 + RetryLink THEN MaxLink ELSE 1 + RetryLink
Links == (MaxLogin + 1)..(MaxLogin + NumLinks)
Gets == (MaxLogin + NumLinks + 1)..(MaxLogin + NumLinks + MaxGet)
Tasks == Logins \cup Links \cup Gets
Shards == 1..NumShards
Identities == {"tg_42", "tg_43"}

None == <<>>
Some(v) == <<v>>

(***************************************************************************)
(* HTTP status codes used by the handlers.                                  *)
(***************************************************************************)
OK == 200
NOT_FOUND == 404
INTERNAL_SERVER_ERROR == 500

\* fn error(err) -> StatusCode: logs and maps every error to one status.
error == INTERNAL_SERVER_ERROR

\* fn err_message(err: &str) -> StatusCode
err_message == INTERNAL_SERVER_ERROR

(***************************************************************************)
(* Text helpers: str::split and friends.                                    *)
(***************************************************************************)
CharAt(s, i) == SubSeq(s, i, i)

\* Position of the first occurrence of character c in s, 0 when there is none.
Find(s, c) ==
    IF \E i \in 1..Len(s) : CharAt(s, i) = c
    THEN CHOOSE i \in 1..Len(s) :
            CharAt(s, i) = c /\ \A j \in 1..(i - 1) : CharAt(s, j) # c
    ELSE 0

\* str::split(c): the pieces between occurrences of c, empty pieces included.
RECURSIVE split(_, _)
split(s, c) ==
    LET p == Find(s, c) IN
    IF p = 0 THEN <<s>>
    ELSE <<SubSeq(s, 1, p - 1)>> \o split(SubSeq(s, p + 1, Len(s)), c)

\* Iterator::take(n)
take(seq, n) == SubSeq(seq, 1, IF Len(seq) < n THEN Len(seq) ELSE n)

\* fn querify(string: &str) -> Vec<(&str, &str)>
RECURSIVE querifyPairs(_)
querifyPairs(pairs) ==
    IF pairs = <<>> THEN <<>>
    ELSE LET it == take(split(Head(pairs), "="), 2) IN
         IF Len(it) = 2
         THEN <<it>> \o querifyPairs(Tail(pairs))
         ELSE querifyPairs(Tail(pairs))

querify(string) == querifyPairs(split(string, "&"))

(***************************************************************************)
(* str::parse::<i64>: an optional sign, then one or more ASCII digits, and  *)
(* the value must fit 64 bits.  The result is the canonical numeral.        *)
(***************************************************************************)
Digits == {"0", "1", "2", "3", "4", "5", "6", "7", "8", "9"}

DigitVal(c) ==
    CASE c = "0" -> 0 [] c = "1" -> 1 [] c = "2" -> 2 [] c = "3" -> 3
      [] c = "4" -> 4 [] c = "5" -> 5 [] c = "6" -> 6 [] c = "7" -> 7
      [] c = "8" -> 8 [] c = "9" -> 9

AllDigits(s) == \A i \in 1..Len(s) : CharAt(s, i) \in Digits

RECURSIVE StripZeros(_)
StripZeros(s) ==
    IF Len(s) > 1 /\ Head(s) = "0" THEN StripZeros(Tail(s)) ELSE s

\* a <= b for two digit strings of the same length
RECURSIVE DigitsLeq(_, _)
DigitsLeq(a, b) ==
    IF a = "" THEN TRUE
    ELSE IF DigitVal(Head(a)) < DigitVal(Head(b)) THEN TRUE
    ELSE IF DigitVal(Head(a)) > DigitVal(Head(b)) THEN FALSE
    ELSE DigitsLeq(Tail(a), Tail(b))

I64MaxDigits == "9223372036854775807"
I64MinDigits == "9223372036854775808"

FitsI64(neg, mag) ==
    LET lim == IF neg THEN I64MinDigits ELSE I64MaxDigits IN
    \/ Len(mag) < Len(lim)
    \/ Len(mag) = Len(lim) /\ DigitsLeq(mag, lim)

\* Result<i64, ParseIntError> as an Option of the canonical numeral
parse_i64(s) ==
    IF s = "" THEN None
    ELSE LET neg  == Head(s) = "-"
             body == IF Head(s) \in {"-", "+"} THEN Tail(s) ELSE s
             mag  == StripZeros(body)
         IN  IF body = "" \/ ~AllDigits(body) \/ ~FitsI64(neg, mag) THEN None
             ELSE IF neg /\ mag # "0" THEN Some("-" \o mag)
             ELSE Some(mag)

(***************************************************************************)
(* The body of login between the provider's reply and the handle            *)
(* generation: the loop over the pairs and the construction of              *)
(* CallbackSecondLoginArgs.                                                 *)
(***************************************************************************)
RequiredKeys ==
    {"access_token", "expires_in", "refresh_token",
     "refresh_token_expires_in", "scope", "token_type"}

\* The value the loop `for (k, v) in map` leaves in the variable of key k:
\* the value of the last pair with that key, None when there is none.
RECURSIVE lastValue(_, _, _)
lastValue(map, k, acc) ==
    IF map = <<>> THEN acc
    ELSE lastValue(Tail(map), k,
                   IF Head(map)[1] = k THEN Some(Head(map)[2]) ELSE acc)

\* Result<CallbackSecondLoginArgs, StatusCode> as an Option of the struct
parseLoginArgs(query) ==
    LET map == querify(query)
        v(k) == lastValue(map, k, None)
        int(k) == IF v(k) = None THEN None ELSE parse_i64(v(k)[1])
    IN  IF \/ \E k \in RequiredKeys : v(k) = None
           \/ int("expires_in") = None
           \/ int("refresh_token_expires_in") = None
        THEN None
        ELSE Some([access_token             |-> v("access_token")[1],
                   expires_in               |-> int("expires_in")[1],
                   refresh_token            |-> v("refresh_token")[1],
                   refresh_token_expires_in |-> int("refresh_token_expires_in")[1],
                   scope                    |-> v("scope")[1],
                   token_type               |-> v("token_type")[1]])

(***************************************************************************)
(* serde_json::to_string of CallbackSecondLoginArgs: the fields in          *)
(* declaration order, strings quoted and escaped, integers as numerals.     *)
(***************************************************************************)
RECURSIVE jsonEscape(_)
jsonEscape(s) ==
    IF s = "" THEN ""
    ELSE LET c == Head(s) IN
         (IF c = "\"" THEN "\\\""
          ELSE IF c = "\\" THEN "\\\\"
          ELSE c) \o jsonEscape(Tail(s))

jsonString(s) == "\"" \o jsonEscape(s) \o "\""

to_string(b) ==
    "{" \o jsonString("access_token") \o ":" \o jsonString(b.access_token)
        \o "," \o jsonString("expires_in") \o ":" \o b.expires_in
        \o "," \o jsonString("refresh_token") \o ":" \o jsonString(b.refresh_token)
        \o "," \o jsonString("refresh_token_expires_in") \o ":"
               \o b.refresh_token_expires_in
        \o "," \o jsonString("scope") \o ":" \o jsonString(b.scope)
        \o "," \o jsonString("token_type") \o ":" \o jsonString(b.token_type)
        \o "}"

(***************************************************************************)
(* Inputs of the model.                                                     *)
(***************************************************************************)
\* rand Alphanumeric, take(20): the handles the generator can produce
HandleText(i) == "h000000000000000000" \o ToString(i)
Handles == {HandleText(i) : i \in 1..NumHandles}

\* the value of the environment variable SECRET
SECRET == "hunter2"

\* The `secret` request header: absent, bytes that are not visible ASCII
\* (HeaderValue::to_str fails), or text.
SecretHeaders ==
    {None, Some([text |-> FALSE, v |-> "hunter2"])}
        \cup {Some([text |-> TRUE, v |-> v]) : v \in {"hunter2", "hunter"}}

ConfigVars ==
    {"GITHUB_CLIENT_ID", "GITHUB_CLIENT_SECRET", "REDIRECT_URL", "REDIS",
     "SECRET", "LOCAL_URL"}

\* Bodies the identity provider can answer with.
FormBody1 ==
    "access_token=tok_1&expires_in=3600&refresh_token=ref_1"
        \o "&refresh_token_expires_in=604800&scope=read&token_type=bearer"
FormBody2 ==
    "token_type=bearer&scope=read&refresh_token_expires_in=+604800"
        \o "&refresh_token=ref_2&expires_in=03600&lang=en&access_token=tok_2"
JsonBody1 ==
    "{\"access_token\":\"tok_1\",\"expires_in\":3600,\"refresh_token\":\"ref_1\","
        \o "\"refresh_token_expires_in\":604800,\"scope\":\"read\","
        \o "\"token_type\":\"bearer\"}"
MissingBody ==
    "access_token=tok_1&expires_in=3600&refresh_token=ref_1"
        \o "&refresh_token_expires_in=604800&token_type=bearer"
NonIntBody ==
    "access_token=tok_1&expires_in=1h&refresh_token=ref_1"
        \o "&refresh_token_expires_in=604800&scope=read&token_type=bearer"
\* every key present, the value of scope empty
EmptyValueBody ==
    "access_token=tok_1&expires_in=3600&refresh_token=ref_1"
        \o "&refresh_token_expires_in=604800&scope=&token_type=bearer"

\* What the POST to the provider can end in: a transport error, or a
\* response with a status and a body.
TransportError == [sent |-> FALSE, status |-> 0, body |-> ""]
Reply(st, b) == [sent |-> TRUE, status |-> st, body |-> b]
\* The outcomes drawn where the parsing is not the subject.
CoreOutcomes == {TransportError, Reply(200, FormBody1), Reply(200, FormBody2)}

ProviderOutcomes ==
    {TransportError}
        \cup {Reply(200, b) :
                b \in {FormBody1, FormBody2, JsonBody1, MissingBody, NonIntBody,
                       EmptyValueBody}}
        \cup {Reply(304, FormBody1), Reply(500, FormBody1)}

\* reqwest Response::error_for_status: an error for a 4xx or 5xx status.
error_for_status(st) == st >= 400 /\ st <= 599

(***************************************************************************)
(* State.                                                                   *)
(***************************************************************************)
VARIABLES
    env,        \* the environment variables that are set
    main,       \* position of fn main
    DB_CONN,    \* OnceCell<MultiplexedConnection>
    TEMP_MAP,   \* DashMap<String, CallbackSecondLoginArgs>
    shard,      \* the shard of TEMP_MAP each key hashes to
    redis,      \* the durable store: key -> value
    task,       \* the requests: position, arguments, locals, response
    written     \* history: who applied the last SET of each key, and of what

vars == <<env, main, DB_CONN, TEMP_MAP, shard, redis, task, written>>

NoResp == [status |-> 0, headers |-> {}, body |-> ""]
NoCache == {<<"cache-control", "no-cache">>}

\* A request that has not arrived.  rid is the handle (the query parameter of
\* login_from_telegram, the local s of login), id the identity, hdr the
\* secret header, val the bundle held (access_info, login_args), s the
\* serialized bundle, res the result of the awaited store call, reply the
\* provider's outcome.
IdleTask ==
    [pc |-> "idle", rid |-> "", id |-> "", hdr |-> None, val |-> None,
     s |-> "", res |-> "", reply |-> None, resp |-> NoResp]

Init ==
    /\ env \in SUBSET ConfigVars
    /\ main = "start"
    /\ DB_CONN = None
    /\ TEMP_MAP = [h \in Handles |-> None]
    /\ shard \in {f \in [Handles -> Shards] : f[HandleText(1)] = 1}
    /\ redis = [k \in Identities |-> None]
    /\ task = [t \in Tasks |-> IdleTask]
    /\ written = [k \in Identities |-> [by |-> 0, val |-> None]]

(***************************************************************************)
(* fn main                                                                  *)
(***************************************************************************)
\* The Lazy statics forced before the connection is made; REDIS is forced by
\* REDIS.as_str().  A missing variable panics (expect).
MainConfig_notForced ==
    /\ main = "start"
    /\ main' = IF "REDIS" \in env THEN "connect" ELSE "panicked"
    /\ UNCHANGED <<env, DB_CONN, TEMP_MAP, shard, redis, task, written>>
MainConfig ==
    /\ main = "start"
    /\ main' = IF {"GITHUB_CLIENT_ID", "GITHUB_CLIENT_SECRET", "REDIRECT_URL",
                   "SECRET", "REDIS"} \subseteq env
               THEN "connect" ELSE "panicked"
    /\ UNCHANGED <<env, DB_CONN, TEMP_MAP, shard, redis, task, written>>

\* get_multiplexed_tokio_connection().await.expect(..); DB_CONN.get_or_init
MainConnect(ok) ==
    /\ main = "connect"
    /\ main' = IF ok THEN "bind" ELSE "panicked"
    /\ DB_CONN' = IF ok THEN Some("connect") ELSE DB_CONN
    /\ UNCHANGED <<env, TEMP_MAP, shard, redis, task, written>>

\* TcpListener::bind(&*LOCAL_URL).await.unwrap(); axum::serve
MainBind(ok) ==
    /\ main = "bind"
    /\ main' = IF "LOCAL_URL" \in env /\ ok THEN "serving" ELSE "panicked"
    /\ UNCHANGED <<env, DB_CONN, TEMP_MAP, shard, redis, task, written>>

(***************************************************************************)
(* Scheduling and locking.                                                  *)
(***************************************************************************)
\* A request in TEMP_MAP.remove runs on a worker thread and keeps it until
\* the shard's write lock is granted.
Busy == {t \in Links : task[t].pc = "remove"}
FreeWorker == Cardinality(Busy) < NumWorkers

\* The requests holding a dashmap Ref (a read lock) on shard sh: access_info
\* lives from TEMP_MAP.get to drop(access_info) or to an early return.
Readers(sh) ==
    {t \in Links : task[t].pc = "set" /\ shard[task[t].rid] = sh}

\* The server accepts request t; requests of one handler arrive in the order
\* of their numbers.
Arrives(t, handler) ==
    /\ main = "serving"
    /\ t \in handler
    /\ task[t].pc = "idle"
    /\ \A u \in handler : u < t => task[u].pc # "idle"

\* The response of a request; its locals are dropped.
Respond(r, status, headers, body) ==
    [r EXCEPT !.pc = "done", !.val = None, !.s = "",
              !.resp = [status |-> status, headers |-> headers, body |-> body]]

(***************************************************************************)
(* The durable store behind DB_CONN.                                        *)
(***************************************************************************)
\* conn.set(key, value) applied by the store
redisSet(store, key, value) == [store EXCEPT ![key] = Some(value)]

\* conn.get(key) converted to Result<String, RedisError>: a missing key is
\* a nil reply, which does not convert to String and is an error.
redisGet_otherKey(store, key) == store[CHOOSE k \in DOMAIN store : k # key]
redisGet(store, key) == store[key]

(***************************************************************************)
(* async fn login_from_telegram                                             *)
(***************************************************************************)
\* TEMP_MAP.get(&rid) reads the entry and leaves the map as it is (line 97).
afterLookup_take(map, rid) == [map EXCEPT ![rid] = None]
afterLookup(map, rid) == map

\* .ok_or_else(|| { .. StatusCode::NOT_FOUND })? (lines 97-104)
notFound_asError(req) == Respond(req, error, {}, "")
notFound(req) == Respond(req, NOT_FOUND, {}, "")

\* The request after conn.set(..).await.map_err(|e| error(&e))? and
\* drop(access_info) (lines 119-121).
afterSet_evictAlways(r, ok) ==
    [r EXCEPT !.pc = "remove", !.res = IF ok THEN "ok" ELSE "err"]
afterSet(r, ok) ==
    IF ok
    THEN [r EXCEPT !.pc = "remove", !.res = "ok"]
    ELSE Respond([r EXCEPT !.res = "err"], error, {}, "")

\* TEMP_MAP.remove(&rid) (line 122)
evict_skip(map, rid) == map
evict_all(map, rid) == [h \in DOMAIN map |-> None]
evict(map, rid) == [map EXCEPT ![rid] = None]

\* Lines 95-119 up to the suspension on conn.set: the lookup, the connection
\* handle, the serialization and the SET request.  access_info (the Ref) is
\* held from here on.
LinkStart(t, rid, telegram_id) ==
    /\ Arrives(t, Links)
    /\ FreeWorker
    /\ LET access_info == TEMP_MAP[rid]
           req == [task[t] EXCEPT !.rid = rid, !.id = telegram_id]
       IN  task' = [task EXCEPT ![t] =
              IF access_info = None
              THEN notFound(req)
              ELSE IF DB_CONN = None
              THEN Respond(req, error, {}, "")
              ELSE [req EXCEPT !.pc = "set",
                               !.val = access_info,
                               !.s = to_string(access_info[1])]]
    /\ TEMP_MAP' = afterLookup(TEMP_MAP, rid)
    /\ UNCHANGED <<env, main, DB_CONN, shard, redis, written>>

\* conn.set(telegram_id, s).await (line 119): the store applies the SET and
\* the request resumes into drop(access_info), or the SET fails and `?`
\* returns the error; either way the Ref is released.
LinkSet(t, ok) ==
    /\ t \in Links
    /\ task[t].pc = "set"
    /\ FreeWorker
    /\ task' = [task EXCEPT ![t] = afterSet(task[t], ok)]
    /\ redis' = IF ok THEN redisSet(redis, task[t].id, task[t].s) ELSE redis
    /\ written' = IF ok
                  THEN [written EXCEPT
                          ![task[t].id] = [by |-> t, val |-> task[t].val]]
                  ELSE written
    /\ UNCHANGED <<env, main, DB_CONN, TEMP_MAP, shard>>

\* The future of the request is dropped while it is suspended on
\* conn.set(..).await (line 119), as the server does when the client goes
\* away: its locals are dropped, access_info with them, and no response is
\* sent.  The SET has reached the store and is applied, or it was never
\* sent.
dropped_holdsRef(r, applied) ==
    [r EXCEPT !.res = IF applied THEN "lost" ELSE "unsent"]
dropped(r, applied) ==
    [r EXCEPT !.pc = "cancelled", !.val = None, !.s = "",
              !.res = IF applied THEN "lost" ELSE "unsent"]

LinkCancel(t, applied) ==
    /\ t \in Links
    /\ task[t].pc = "set"
    /\ FreeWorker
    /\ task' = [task EXCEPT ![t] = dropped(task[t], applied)]
    /\ redis' = IF applied THEN redisSet(redis, task[t].id, task[t].s)
                 ELSE redis
    /\ written' = IF applied
                  THEN [written EXCEPT
                          ![task[t].id] = [by |-> t, val |-> task[t].val]]
                  ELSE written
    /\ UNCHANGED <<env, main, DB_CONN, TEMP_MAP, shard>>

\* TEMP_MAP.remove(&rid) takes the shard's write lock, so it waits for
\* every Ref on the shard; then the success response (lines 122-127).
LinkRemove(t) ==
    /\ t \in Links
    /\ task[t].pc = "remove"
    /\ Readers(shard[task[t].rid]) = {}
    /\ TEMP_MAP' = evict(TEMP_MAP, task[t].rid)
    /\ task' = [task EXCEPT ![t] =
                  Respond(task[t], OK, NoCache, "Successfully login")]
    /\ UNCHANGED <<env, main, DB_CONN, shard, redis, written>>

(***************************************************************************)
(* async fn login                                                           *)
(***************************************************************************)
\* The POST to the provider is sent (lines 131-143); the request suspends.
LoginStart(t) ==
    /\ Arrives(t, Logins)
    /\ FreeWorker
    /\ task' = [task EXCEPT ![t].pc = "post"]
    /\ UNCHANGED <<env, main, DB_CONN, TEMP_MAP, shard, redis, written>>

\* Result<CallbackSecondLoginArgs, StatusCode> of lines 143-193 for a
\* provider outcome o.
exchange(o) ==
    IF ~o.sent \/ error_for_status(o.status) THEN None
    ELSE parseLoginArgs(o.body)

\* exchange, tabulated over the outcomes of the model
exchanged == [o \in ProviderOutcomes |-> exchange(o)]

\* The page returned with the handle (lines 213-218)
HitMe(s) ==
    "<a href=\"https://t.me/aosc_buildit_bot?start=" \o s \o "\">Hit me!</a>"

\* The provider's outcome arrives (lines 143-195): on success the blocking
\* closure is spawned, which first draws the handle s.
LoginResp(t, o, s) ==
    /\ t \in Logins
    /\ task[t].pc = "post"
    /\ FreeWorker
    /\ task' = [task EXCEPT ![t] =
                  IF exchanged[o] = None
                  THEN Respond([task[t] EXCEPT !.reply = Some(o)], error, {}, "")
                  ELSE [task[t] EXCEPT !.pc = "insert",
                                       !.reply = Some(o),
                                       !.val = exchanged[o],
                                       !.rid = s]]
    /\ UNCHANGED <<env, main, DB_CONN, TEMP_MAP, shard, redis, written>>

\* DashMap::insert: the entry is set, whatever was there before.
insert_lost(map, key, value) == map
insert(map, key, value) == [map EXCEPT ![key] = value]

\* TEMP_MAP.insert(s.clone(), login_args) on the blocking thread (line 203):
\* takes the shard's write lock, so it waits for every Ref on the shard.
LoginInsert(t) ==
    /\ t \in Logins
    /\ task[t].pc = "insert"
    /\ Readers(shard[task[t].rid]) = {}
    /\ TEMP_MAP' = insert(TEMP_MAP, task[t].rid, task[t].val)
    /\ task' = [task EXCEPT ![t].pc = "join"]
    /\ UNCHANGED <<env, main, DB_CONN, shard, redis, written>>

\* The JoinHandle resolves and the page with the handle is returned
\* (lines 207-218).
LoginReturn(t) ==
    /\ t \in Logins
    /\ task[t].pc = "join"
    /\ FreeWorker
    /\ task' = [task EXCEPT ![t] =
                  Respond(task[t], OK, NoCache, HitMe(task[t].rid))]
    /\ UNCHANGED <<env, main, DB_CONN, TEMP_MAP, shard, redis, written>>

(***************************************************************************)
(* async fn get_token                                                       *)
(***************************************************************************)
\* secret.and_then(|x| x.to_str().ok()).map(|x| x != &*SECRET).unwrap_or(true)
authFailed_missingPasses(secret) ==
    LET str == IF secret = None THEN None
               ELSE IF secret[1].text THEN Some(secret[1].v) ELSE None
    IN  IF str = None THEN FALSE ELSE str[1] # SECRET
authFailed(secret) ==
    LET str == IF secret = None THEN None
               ELSE IF secret[1].text THEN Some(secret[1].v) ELSE None
    IN  IF str = None THEN TRUE ELSE str[1] # SECRET

\* Lines 250-269 up to the suspension on conn.get.
GetStart(t, id, secret) ==
    /\ Arrives(t, Gets)
    /\ FreeWorker
    /\ LET req == [task[t] EXCEPT !.id = id, !.hdr = secret] IN
       task' = [task EXCEPT ![t] =
                  IF authFailed(secret)
                  THEN Respond(req, INTERNAL_SERVER_ERROR, {}, "")
                  ELSE IF DB_CONN = None
                  THEN Respond(req, error, {}, "")
                  ELSE [req EXCEPT !.pc = "get"]]
    /\ UNCHANGED <<env, main, DB_CONN, TEMP_MAP, shard, redis, written>>

\* conn.get(payload.id) answers and the request resumes (lines 269-276):
\* the store is unreachable, or it answers with the value or with nil.
GetReply(t, ok) ==
    /\ t \in Gets
    /\ task[t].pc = "get"
    /\ FreeWorker
    /\ LET res == IF ok THEN redisGet(redis, task[t].id) ELSE None
           r == [task[t] EXCEPT !.res = IF ~ok THEN "err"
                                        ELSE IF res = None THEN "nil"
                                        ELSE "ok"]
       IN  task' = [task EXCEPT ![t] =
                      IF res = None THEN Respond(r, error, {}, "")
                      ELSE Respond(r, OK, NoCache, res[1])]
    /\ UNCHANGED <<env, main, DB_CONN, TEMP_MAP, shard, redis, written>>

(***************************************************************************)
(* Specification.                                                           *)
(***************************************************************************)
MainNext ==
    \/ MainConfig
    \/ \E ok \in BOOLEAN : MainConnect(ok)
    \/ \E ok \in BOOLEAN : MainBind(ok)

LoginNext(logins, outcomes) ==
    \/ \E t \in logins : LoginStart(t)
    \/ \E t \in logins, o \in outcomes, s \in Handles : LoginResp(t, o, s)
    \/ \E t \in logins : LoginInsert(t)
    \/ \E t \in logins : LoginReturn(t)

LinkNextOf(links) ==
    \/ \E t \in links, rid \in Handles, telegram_id \in Identities :
          LinkStart(t, rid, telegram_id)
    \/ \E t \in links, ok \in BOOLEAN : LinkSet(t, ok)
    \/ \E t \in links : LinkRemove(t)

LinkNext == LinkNextOf((MaxLogin + 1)..(MaxLogin + MaxLink))

GetNext ==
    \/ \E t \in Gets, id \in Identities, secret \in SecretHeaders :
          GetStart(t, id, secret)
    \/ \E t \in Gets, ok \in BOOLEAN : GetReply(t, ok)

\* The handshake: exchanges and link requests served concurrently.
Next == MainNext \/ LoginNext(Logins, CoreOutcomes) \/ LinkNext

Spec == Init /\ [][Next]_vars

\* The handshake followed by lookups, with LookupLogin exchanges.
NextLookup ==
    MainNext \/ LoginNext(1..LookupLogin, CoreOutcomes) \/ LinkNext \/ GetNext

SpecLookup == Init /\ [][NextLookup]_vars

\* The exchange alone, over every provider outcome of the model.
NextExchange == MainNext \/ LoginNext(Logins, ProviderOutcomes)

SpecExchange == Init /\ [][NextExchange]_vars

\* The three handlers together, with LifetimeLink link requests.
NextLifetime ==
    \/ MainNext
    \/ LoginNext(Logins, CoreOutcomes)
    \/ LinkNextOf((MaxLogin + 1)..(MaxLogin + LifetimeLink))
    \/ GetNext

SpecLifetime == Init /\ [][NextLifetime]_vars

\* A link request that is cancelled on its SET, and the RetryLink link
\* requests that arrive after it, with the exchanges.
FirstLink == MaxLogin + 1

NextCancel ==
    \/ MainNext
    \/ LoginNext(Logins, CoreOutcomes)
    \/ \E rid \in Handles, telegram_id \in Identities :
          LinkStart(FirstLink, rid, telegram_id)
    \/ \E applied \in BOOLEAN : LinkCancel(FirstLink, applied)
    \/ /\ task[FirstLink].pc = "cancelled"
       /\ LinkNextOf((FirstLink + 1)..(FirstLink + RetryLink))

SpecCancel == Init /\ [][NextCancel]_vars

(***************************************************************************)
(* Properties of the linking protocol (login_from_telegram).                *)
(***************************************************************************)
\* The number of exchanges that have inserted handle h.
InsertsOf(h) ==
    Cardinality({t \in Logins : task[t].pc \in {"join", "done"}
                                  /\ task[t].rid = h})

\* The link requests presenting h that have returned success.
LinkSuccess(h) ==
    {t \in Links : /\ task[t].pc = "done"
                   /\ task[t].rid = h
                   /\ task[t].resp.status = OK}

\* Request t takes the step that ends it.
Returns(t) == task[t].pc # "done" /\ task'[t].pc = "done"

\* C1: a handle inserted by one exchange is consumed at most once: at most
\* one link request presenting it returns success.
C1_AtMostOnce ==
    \A h \in Handles : InsertsOf(h) = 1 => Cardinality(LinkSuccess(h)) <= 1

\* C2: write-then-evict.  A link request executes TEMP_MAP.remove only after
\* its own SET has returned success and its record is in the store, and
\* every entry that leaves TEMP_MAP is removed by such a request.
C2_WriteThenEvict ==
    [][/\ \A t \in Links :
            (task[t].pc = "remove" /\ task'[t].pc = "done")
                => task[t].res = "ok" /\ redis[task[t].id] # None
       /\ \A h \in Handles :
            (TEMP_MAP[h] # None /\ TEMP_MAP'[h] = None)
                => \E t \in Links : /\ task[t].rid = h
                                    /\ task[t].pc = "remove"
                                    /\ task[t].res = "ok"
                                    /\ task'[t].pc = "done"]_vars

C2_Witness ==
    \E t \in Links : /\ task[t].pc = "done"
                     /\ task[t].res = "ok"
                     /\ task[t].resp.status = OK
                     /\ TEMP_MAP[task[t].rid] = None
                     /\ redis[task[t].id] # None

\* C3: retry-safety.  A link request whose SET fails returns a failure and
\* leaves its handle in TEMP_MAP with the bundle it read; a link request
\* presenting the same handle whose SET succeeds returns success.
C3_RetrySafety ==
    /\ [][\A t \in Links :
            (task[t].pc = "set" /\ task'[t].pc = "done")
                => /\ task'[t].resp.status = INTERNAL_SERVER_ERROR
                   /\ task[t].val # None
                   /\ TEMP_MAP'[task[t].rid] = task[t].val]_vars
    /\ [](\A t, u \in Links :
            (/\ task[t].pc = "done" /\ task[t].res = "err"
             /\ task[u].pc = "done" /\ task[u].res = "ok"
             /\ task[u].rid = task[t].rid)
                => task[u].resp.status = OK)

C3_Witness ==
    \E t, u \in Links :
        /\ task[t].pc = "done" /\ task[t].res = "err"
        /\ task[t].resp.status = INTERNAL_SERVER_ERROR
        /\ task[u].pc = "done" /\ task[u].res = "ok"
        /\ task[u].rid = task[t].rid
        /\ task[u].resp.status = OK

\* C4 as claimed: when a link request for (H, identity) returns success, H is
\* absent from TEMP_MAP and the store holds under identity the serialization
\* of the bundle that request read under H.
C4_LinkPostcondition ==
    [][\A t \in Links :
         (Returns(t) /\ task'[t].resp.status = OK)
            => /\ TEMP_MAP'[task[t].rid] = None
               /\ redis'[task[t].id] = Some(to_string(task[t].val[1]))]_vars

\* C4 amended: ... the store holds under identity the serialization of the
\* bundle that request read under H, or, when the SET of another link
\* request for the same identity was applied after this request's SET, the
\* record of the last such request.
C4_LinkPostconditionAmended ==
    [][\A t \in Links :
         (Returns(t) /\ task'[t].resp.status = OK)
            => LET w == written[task[t].id] IN
               /\ TEMP_MAP'[task[t].rid] = None
               /\ w.by \in Links
               /\ task[w.by].id = task[t].id
               /\ redis'[task[t].id] = Some(to_string(w.val[1]))
               /\ w.by = t => w.val = task[t].val]_vars

C4_Witness ==
    \E t \in Links : /\ task[t].pc = "done"
                     /\ task[t].resp.status = OK
                     /\ TEMP_MAP[task[t].rid] = None
                     /\ written[task[t].id].by \in Links \ {t}
                     /\ redis[task[t].id] = Some(to_string(written[task[t].id].val[1]))

\* C5: a link request presenting a handle that is not in TEMP_MAP, whether
\* never issued or already consumed, ends at the lookup with the one
\* not-found response, sends no SET, and changes neither TEMP_MAP nor the
\* store.
C5_NotFound ==
    [][\A t \in Links :
         (task[t].pc = "idle" /\ task'[t].pc # "idle"
             /\ TEMP_MAP[task'[t].rid] = None)
            => /\ task'[t].pc = "done"
               /\ task'[t].resp = [status |-> NOT_FOUND, headers |-> {},
                                   body |-> ""]
               /\ task'[t].res = ""
               /\ TEMP_MAP' = TEMP_MAP
               /\ redis' = redis]_vars

C5_Witness ==
    \E t, u \in Links :
        /\ task[t].pc = "done" /\ task[t].resp.status = OK
        /\ task[u].pc = "done" /\ task[u].resp.status = NOT_FOUND
        /\ task[u].rid = task[t].rid
        /\ task[u].res = ""

(***************************************************************************)
(* Properties of the gated lookup (get_token).                              *)
(***************************************************************************)
\* The secret header is absent, is not text, or differs from the secret.
BadSecret(hdr) ==
    \/ hdr = None
    \/ ~hdr[1].text
    \/ hdr[1].v # SECRET

\* The bare status response of a failed request.
Failure(status) == [status |-> status, headers |-> {}, body |-> ""]

\* C6: a lookup whose secret header is absent, not text or wrong ends at the
\* check with one response, the same for every such header and every
\* identity whether or not its key is in the store, with no record in it and
\* without a GET sent to the store.
C6_FailsClosed ==
    [][\A t \in Gets :
         (task[t].pc = "idle" /\ task'[t].pc # "idle" /\ BadSecret(task'[t].hdr))
            => /\ task'[t].pc = "done"
               /\ task'[t].resp = Failure(INTERNAL_SERVER_ERROR)
               /\ task'[t].res = ""
               /\ redis' = redis]_vars

C6_Witness ==
    \E t \in Gets :
        /\ task[t].pc = "done"
        /\ task[t].hdr # None /\ task[t].hdr[1].text /\ task[t].hdr[1].v # SECRET
        /\ redis[task[t].id] # None
        /\ task[t].resp = Failure(INTERNAL_SERVER_ERROR)

C8_DistinctLookupFailures ==
    \A t \in Gets :
        /\ (task[t].pc = "done" /\ task[t].res = "err")
              => task[t].resp = Failure(error)
        /\ (task[t].pc = "done" /\ task[t].res = "nil")
              => task[t].resp # Failure(error)

(***************************************************************************)
(* Properties of the exchange (login).                                      *)
(***************************************************************************)
Bundle1 ==
    [access_token |-> "tok_1", expires_in |-> "3600", refresh_token |-> "ref_1",
     refresh_token_expires_in |-> "604800", scope |-> "read",
     token_type |-> "bearer"]
Bundle2 ==
    [access_token |-> "tok_2", expires_in |-> "3600", refresh_token |-> "ref_2",
     refresh_token_expires_in |-> "604800", scope |-> "read",
     token_type |-> "bearer"]

\* The 2xx outcomes whose body carries the six fields with integer-valued
\* expiries, form-encoded or JSON, with the field values they carry.
ValidOutcomes ==
    {<<Reply(200, FormBody1), Bundle1>>,
     <<Reply(200, FormBody2), Bundle2>>,
     <<Reply(200, JsonBody1), Bundle1>>}

\* The outcomes the exchange has to fail on: a transport error, a status
\* that is not 2xx, a missing key, an expiry that is not an integer.
BadOutcome(o) ==
    \/ ~o.sent
    \/ o.status < 200 \/ o.status > 299
    \/ o.body \in {MissingBody, NonIntBody}

\* C9: for every valid 2xx outcome, form-encoded or JSON, the exchange
\* succeeds and the bundle parsed and stored has exactly the six values.
C9_ExchangeExact ==
    /\ [](\A t \in Logins : \A vo \in ValidOutcomes :
            task[t].reply = Some(vo[1])
               => /\ task[t].resp.status # INTERNAL_SERVER_ERROR
                  /\ task[t].pc = "insert" => task[t].val = Some(vo[2]))
    /\ [][\A t \in Logins : \A vo \in ValidOutcomes :
            (task[t].reply = Some(vo[1])
                /\ task[t].pc = "insert" /\ task'[t].pc = "join")
               => TEMP_MAP'[task[t].rid] = Some(vo[2])]_vars

\* C10: for every bad outcome the exchange returns a failure, no handle is
\* generated or returned, and TEMP_MAP is unchanged.
C10_NoPartialSuccess ==
    [][\A t \in Logins :
         (task[t].pc = "post" /\ task'[t].pc # "post"
             /\ BadOutcome(task'[t].reply[1]))
            => /\ task'[t].pc = "done"
               /\ task'[t].resp = Failure(INTERNAL_SERVER_ERROR)
               /\ task'[t].rid = ""
               /\ TEMP_MAP' = TEMP_MAP]_vars

\* The fields of a bundle are all non-empty.
WellFormed(b) ==
    /\ b.access_token # "" /\ b.expires_in # "" /\ b.refresh_token # ""
    /\ b.refresh_token_expires_in # "" /\ b.scope # "" /\ b.token_type # ""

\* C11: every bundle in TEMP_MAP, and every bundle an exchange holds for
\* insertion, has its six fields non-empty; a response with a required key
\* present and its value empty never leaves a bundle in TEMP_MAP.
C11_WellFormedBundles ==
    /\ \A h \in Handles : TEMP_MAP[h] # None => WellFormed(TEMP_MAP[h][1])
    /\ \A t \in Logins :
          (task[t].reply = Some(Reply(200, EmptyValueBody)))
             => task[t].pc # "join" /\ task[t].resp.status # OK

\* The bundle parsed from the provider's response of exchange t.
Parsed(t) == exchanged[task[t].reply[1]]

C13_AwaitsDoNotBlock ==
    \A t \in Links :
        task[t].pc = "set"
           => /\ \A u \in Logins :
                    (task[u].pc = "insert" /\ task[u].rid # task[t].rid)
                       => ENABLED LoginInsert(u)
              /\ \A u \in Links :
                    (task[u].pc = "remove" /\ task[u].rid # task[t].rid)
                       => ENABLED LinkRemove(u)

\* C14: a link request that fails on the store (its SET returns an error)
\* is answered with a response that is neither the not-found response nor
\* the response of an internal fault, which is what a failure of
\* serde_json::to_string is answered with (map_err(|e| error(&e))).
C14_DistinctLinkFailures ==
    \A t \in Links :
        (task[t].pc = "done" /\ task[t].res = "err")
           => /\ task[t].resp # Failure(NOT_FOUND)
              /\ task[t].resp # Failure(error)

\* C15: the entry a link request removes from TEMP_MAP is the bundle that
\* request read at its lookup and wrote to the store: no bundle leaves
\* TEMP_MAP that was not written.
C15_EvictsOnlyPersisted ==
    [][\A t \in Links :
         (task[t].pc = "remove" /\ task'[t].pc = "done"
             /\ TEMP_MAP[task[t].rid] # None)
            => /\ task[t].res = "ok"
               /\ TEMP_MAP[task[t].rid] = task[t].val]_vars

\* C16: an entry of TEMP_MAP changes only in two steps: it is removed by
\* the TEMP_MAP.remove of a link request that presented its handle and
\* whose SET succeeded, and it is set by the TEMP_MAP.insert of an exchange
\* that succeeded and drew its handle.  Every other step (of the lookup, of
\* a failing exchange, of a failing link request, of a request on another
\* handle) leaves it as it is.
C16_EntriesLiveUntilLinked ==
    [][\A h \in Handles :
         TEMP_MAP'[h] # TEMP_MAP[h]
            => \/ /\ TEMP_MAP'[h] = None
                  /\ \E t \in Links : /\ task[t].rid = h
                                      /\ task[t].pc = "remove"
                                      /\ task[t].res = "ok"
                                      /\ redis[task[t].id] # None
                                      /\ task'[t].pc = "done"
               \/ /\ TEMP_MAP'[h] # None
                  /\ \E t \in Logins : /\ task[t].rid = h
                                       /\ task[t].pc = "insert"
                                       /\ Parsed(t) # None
                                       /\ TEMP_MAP'[h] = Parsed(t)
                                       /\ task'[t].pc = "join"]_vars

\* An entry has outlived a lookup with the secret, a failed exchange, and a
\* failed link request on its handle or the eviction of another handle.
C16_Witness ==
    \E h \in Handles, t \in Links, g \in Gets :
        /\ TEMP_MAP[h] # None
        /\ task[g].pc = "done"
        /\ task[t].pc = "done"
        /\ \/ task[t].rid = h /\ task[t].res = "err"
           \/ task[t].rid # h /\ task[t].resp.status = OK
        /\ \E u \in Logins : task[u].pc = "done" /\ task[u].resp.status # OK

\* Link request u is the first to arrive after the cancelled request t that
\* presents the handle of t.
NextPresenting(t, u) ==
    /\ t < u
    /\ task[u].rid = task[t].rid
    /\ \A w \in Links : (t < w /\ w < u) => task[w].rid # task[t].rid

\* The step in which request t is cancelled with its SET applied leaves the
\* handle in TEMP_MAP with its bundle and t holding no Ref.
CancelLeavesHandle ==
    \A t \in Links :
        (task[t].res = "" /\ task'[t].res = "lost")
           => /\ TEMP_MAP'[task[t].rid] = task[t].val
              /\ TEMP_MAP'[task[t].rid] # None
              /\ t \notin Readers(shard[task[t].rid])'

\* C17 as claimed: after a link request for H was cancelled with its SET
\* applied, H is still in TEMP_MAP and no Ref of the request is left; and
\* the next link request presenting H whose SET succeeds returns success
\* with H absent from TEMP_MAP and the store holding, under its identity,
\* the bundle it read.
C17_ConvergesAfterCancel ==
    [][/\ CancelLeavesHandle
       /\ \A t, u \in Links :
            (/\ task[t].pc = "cancelled" /\ task[t].res = "lost"
             /\ NextPresenting(t, u)
             /\ task[u].pc = "remove" /\ task[u].res = "ok"
             /\ task'[u].pc # "remove")
               => /\ task'[u].resp.status = OK
                  /\ TEMP_MAP'[task[u].rid] = None
                  /\ redis'[task[u].id] = Some(to_string(task[u].val[1]))]_vars

\* C17 amended: ... and the store holding, under its identity, the bundle
\* it read, or, when the SET of another link request for the same identity
\* was applied after its own, the record of the last such request.
C17_ConvergesAfterCancelAmended ==
    [][/\ CancelLeavesHandle
       /\ \A t, u \in Links :
            (/\ task[t].pc = "cancelled" /\ task[t].res = "lost"
             /\ NextPresenting(t, u)
             /\ task[u].pc = "remove" /\ task[u].res = "ok"
             /\ task'[u].pc # "remove")
               => LET w == written[task[u].id] IN
                  /\ task'[u].resp.status = OK
                  /\ TEMP_MAP'[task[u].rid] = None
                  /\ w.by \in Links
                  /\ task[w.by].id = task[u].id
                  /\ redis'[task[u].id] = Some(to_string(w.val[1]))
                  /\ w.by = u => w.val = task[u].val]_vars

C17_Witness ==
    \E t, u \in Links :
        /\ task[t].pc = "cancelled" /\ task[t].res = "lost"
        /\ NextPresenting(t, u)
        /\ task[u].pc = "done" /\ task[u].res = "ok"
        /\ task[u].resp.status = OK
        /\ task[u].id # task[t].id
        /\ TEMP_MAP[task[u].rid] = None
        /\ written[task[u].id].by = u
        /\ redis[task[u].id] = Some(to_string(written[task[u].id].val[1]))

(***************************************************************************)
(* Properties of the startup (main).                                        *)
(***************************************************************************)
\* C18: the server serves only with the six variables set and DB_CONN
\* initialised, and a request is handled only while the server serves; so
\* with a variable missing no request is ever handled.
C18_FailFastStartup ==
    /\ main = "serving" => (ConfigVars \subseteq env /\ DB_CONN # None)
    /\ \A t \in Tasks :
          task[t].pc # "idle"
             => /\ main = "serving"
                /\ ConfigVars \subseteq env
                /\ DB_CONN # None
    /\ main = "panicked" => \A t \in Tasks : task[t].pc = "idle"

C18_Witness ==
    /\ main = "serving"
    /\ ConfigVars \subseteq env
    /\ DB_CONN # None
    /\ \E t \in Logins : task[t].pc = "done"
    /\ \E t \in Links : task[t].pc = "done"
    /\ \E t \in Gets : task[t].pc = "done" /\ task[t].res # ""

====
